---- MODULE Spec2Model ----
(***************************************************************************)
(* The query algebrizer's handling of negation (`not` / `not-join`):       *)
(* ConjoiningClauses::apply_not_join of                                    *)
(* query-algebrizer/src/clauses/not.rs, together with the parts of the     *)
(* ConjoiningClauses accumulator it calls.  apply_not_join and the test    *)
(* schema are translated from not.rs; the accumulator's other operations   *)
(* (pattern application, use_as_template, expand_column_bindings, ...)     *)
(* are defined elsewhere in the query-algebrizer crate and are modelled    *)
(* from the design document, constrained by the expectations of the tests  *)
(* in not.rs.                                                              *)
(*                                                                         *)
(* The command-line reader: InputReader::read_input of                     *)
(* tools/cli/src/mentat_cli/input.rs.  A text is modelled by the sequence  *)
(* of its tokens, a newline being a token; the command parser is defined   *)
(* elsewhere in the CLI crate and is modelled by a parser of such texts.   *)
(*                                                                         *)
(* The constant projector: ConstantProjector of                            *)
(* query-projector/src/projectors/constant.rs.                             *)
(*                                                                         *)
(* A table alias is modelled by its number n: alias n is the string        *)
(* "datoms" followed by n printed with two digits (datoms00, datoms01).    *)
(***************************************************************************)
EXTENDS Integers, Sequences, FiniteSets, TLC

VARIABLES
    cc,        \* the ConjoiningClauses being built by algebrize
    ccRef,     \* the same where-list algebrized without its dropped negations
    pc,        \* "clauses" | "done" | "error"
    result,    \* the Result of algebrize / of the last failing step
    nclauses,  \* number of top-level clauses applied so far
    last,      \* record of the last top-level clause application
    dropped,   \* record of the latest negation dropped as known-empty
    interface,       \* InputReader.interface.is_some(): reading from a terminal
    buffer,          \* InputReader.buffer
    in_process_cmd,  \* InputReader.in_process_cmd
    history,         \* the history kept by the terminal interface
    history_file,    \* the history file as last saved
    reads,           \* number of calls of read_input so far
    rd,              \* record of the last call of read_input
    projector,       \* the ConstantProjector: its spec and results_factory
    factory_calls,   \* number of calls of results_factory so far
    out,             \* record of the last call of project / project_without_rows
    prev             \* record of the call before it

algebrizerVars == <<cc, ccRef, pc, result, nclauses, last, dropped>>

readerVars == <<interface, buffer, in_process_cmd, history, history_file, reads, rd>>

projectorVars == <<projector, factory_calls, out, prev>>

vars == <<cc, ccRef, pc, result, nclauses, last, dropped,
          interface, buffer, in_process_cmd, history, history_file, reads, rd,
          projector, factory_calls, out, prev>>

\* Upper bound on the number of top-level where-clauses of a query.
MaxClauses == 3

\* Upper bound on the number of calls of read_input in a session.
MaxReads == 4

\* Upper bound on the number of projections asked of one ConstantProjector.
MaxProjects == 3

----------------------------------------------------------------------------
(* Variables, types, values, schema *)

\* Variables in the order of Variable's Ord (iteration order of BTreeSet/BTreeMap).
VarOrder == <<"?x", "?y", "?z">>

Variables == {VarOrder[i] : i \in 1..Len(VarOrder)}

SortedVars(S) == SelectSeq(VarOrder, LAMBDA v : v \in S)

AnyTypes == {"Ref", "Long", "Double", "String", "Boolean", "Instant", "Keyword", "Uuid"}

TypedString(s) == [type |-> "String", val |-> s]

TypedLong(s) == [type |-> "Long", val |-> s]

\* prepopulated_schema: ident -> entid
SchemaIdents ==
    (":foo/name" :> 65) @@ (":foo/knows" :> 66) @@ (":foo/parent" :> 67)
      @@ (":foo/age" :> 68) @@ (":foo/height" :> 69)

\* prepopulated_schema: entid -> value_type
SchemaValueType ==
    (65 :> "String") @@ (66 :> "String") @@ (67 :> "String")
      @@ (68 :> "Long") @@ (69 :> "Long")

----------------------------------------------------------------------------
(* Maps *)

EmptyMap == [k \in {} |-> {}]

Put(m, k, v) == (k :> v) @@ m

Has(m, k) == k \in DOMAIN m

Restrict(m, S) == [k \in (DOMAIN m) \cap S |-> m[k]]

----------------------------------------------------------------------------
(* Constraints *)

QualifiedAlias(alias, column) == [alias |-> alias, column |-> column]

SourceAlias(alias) == [table |-> "Datoms", alias |-> alias]

QColumn(qa) == [t |-> "Column", col |-> qa]

QEntid(e) == [t |-> "Entid", entid |-> e]

QTypedValue(v) == [t |-> "TypedValue", value |-> v]

Equals(qa, qv) == [kind |-> "Equals", left |-> qa, right |-> qv]

NotExists(child) == [kind |-> "NotExists", subquery |-> child]

\* ColumnAlternation: a disjunction of ColumnIntersections.
Alternation(intersections) == [kind |-> "Alternation", branches |-> intersections]

----------------------------------------------------------------------------
(* ConjoiningClauses *)

DefaultCC ==
    [ empty_because   |-> "None",
      alias_counter   |-> 0,
      from            |-> <<>>,
      computed_tables |-> <<>>,
      wheres          |-> <<>>,
      column_bindings |-> EmptyMap,
      input_variables |-> {},
      value_bindings  |-> EmptyMap,
      known_types     |-> EmptyMap,
      extracted_types |-> EmptyMap,
      required_types  |-> EmptyMap ]

IsKnownEmpty(c) == c.empty_because # "None"

MarkKnownEmpty(c, why) ==
    IF IsKnownEmpty(c) THEN c ELSE [c EXCEPT !.empty_because = why]

AddIntersection(c, constraint) == [c EXCEPT !.wheres = Append(@, constraint)]

KnownTypesOf(c, v) == IF Has(c.known_types, v) THEN c.known_types[v] ELSE AnyTypes

----------------------------------------------------------------------------
(* Binding environment.  Every mutator returns at once on a known-empty CC. *)

\* known_types[var] <- known_types[var] /\ set; an empty result marks the CC empty.
NarrowTypesForVar(c, v, types) ==
    IF IsKnownEmpty(c) THEN c
    ELSE LET new == KnownTypesOf(c, v) \cap types
             c1  == [c EXCEPT !.known_types = Put(@, v, new)]
         IN  IF new = {} THEN MarkKnownEmpty(c1, "TypeMismatch") ELSE c1

\* Append the column to column_bindings[var] and narrow the variable's type.
\* The equality with the first column is emitted by expand_column_bindings
\* (the tests of not.rs find it after the constraints of all the clauses).
BindColumnToVar(c, v, qa, types) ==
    IF IsKnownEmpty(c) THEN c
    ELSE LET old == IF Has(c.column_bindings, v) THEN c.column_bindings[v] ELSE <<>>
             c1  == [c EXCEPT !.column_bindings = Put(@, v, Append(old, qa))]
         IN  NarrowTypesForVar(c1, v, types)

\* Equals(column, TypedValue(value)), or known-empty when the value's type is
\* not one the column can hold.
ConstrainColumnToConstant(c, qa, value, types) ==
    IF IsKnownEmpty(c) THEN c
    ELSE IF value.type \notin types THEN MarkKnownEmpty(c, "ValueTypeMismatch")
    ELSE AddIntersection(c, Equals(qa, QTypedValue(value)))

----------------------------------------------------------------------------
(* Pattern clauses [e a v].  A place is a variable, a keyword, a literal or *)
(* the placeholder.                                                         *)

PVar(name) == [p |-> "var", name |-> name]

PKw(name) == [p |-> "kw", name |-> name]

PLit(value) == [p |-> "lit", value |-> value]

PAny == [p |-> "_"]

Pattern(e, a, v) == [kind |-> "pattern", e |-> e, a |-> a, v |-> v]

\* The value types the value column of a row with this attribute place can hold.
AttributeValueTypes(a) ==
    IF a.p = "kw" /\ Has(SchemaIdents, a.name)
    THEN {SchemaValueType[SchemaIdents[a.name]]}
    ELSE AnyTypes

\* Step 2: the attribute place.
ApplyPatternAttribute(c, alias, a) ==
    IF IsKnownEmpty(c) \/ a.p # "kw" THEN c
    ELSE IF ~Has(SchemaIdents, a.name) THEN MarkKnownEmpty(c, "UnresolvedIdent")
    ELSE AddIntersection(c, Equals(QualifiedAlias(alias, "Attribute"),
                                   QEntid(SchemaIdents[a.name])))

\* A variable place: a variable with a value binding stands for its value.
ApplyPatternPlace(c, qa, place, types) ==
    IF IsKnownEmpty(c) \/ place.p = "_" THEN c
    ELSE IF place.p = "lit" THEN ConstrainColumnToConstant(c, qa, place.value, types)
    ELSE IF Has(c.value_bindings, place.name)
         THEN ConstrainColumnToConstant(c, qa, c.value_bindings[place.name], types)
    ELSE BindColumnToVar(c, place.name, qa, types)

\* apply_pattern: a fresh alias, then the attribute, the value, the entity.
ApplyPattern(c, p) ==
    IF IsKnownEmpty(c) THEN c
    ELSE LET alias == c.alias_counter
             c0 == [c EXCEPT !.alias_counter = @ + 1,
                             !.from = Append(@, SourceAlias(alias))]
             c1 == ApplyPatternAttribute(c0, alias, p.a)
             c2 == ApplyPatternPlace(c1, QualifiedAlias(alias, "Value"), p.v,
                                     AttributeValueTypes(p.a))
         IN  ApplyPatternPlace(c2, QualifiedAlias(alias, "Entity"), p.e, {"Ref"})

----------------------------------------------------------------------------
(* Scalar `ground`: [(ground value) ?var] *)

Ground(name, value) == [kind |-> "ground", name |-> name, value |-> value]

\* apply_ground for a scalar: the variable gets the value as its value binding
\* and the value's type as its known type; a different value already bound,
\* or a type the variable cannot have, leaves the CC known-empty.
ApplyGround(c, g) ==
    IF IsKnownEmpty(c) THEN c
    ELSE IF Has(c.value_bindings, g.name)
    THEN (IF c.value_bindings[g.name] = g.value THEN c
          ELSE MarkKnownEmpty(c, "ConflictingBindings"))
    ELSE IF KnownTypesOf(c, g.name) \cap {g.value.type} = {}
    THEN NarrowTypesForVar(c, g.name, {g.value.type})
    ELSE [NarrowTypesForVar(c, g.name, {g.value.type})
            EXCEPT !.value_bindings = Put(@, g.name, g.value)]

----------------------------------------------------------------------------
(* Post-processing steps *)

RECURSIVE ExpandColumns(_, _, _)
\* Equals(first, Column(cols[i])) for i = from..Len(cols), when missing.
ExpandColumns(c, cols, i) ==
    IF i > Len(cols) THEN c
    ELSE LET eq == Equals(cols[1], QColumn(cols[i]))
             present == \E k \in 1..Len(c.wheres) : c.wheres[k] = eq
         IN  ExpandColumns(IF present THEN c ELSE AddIntersection(c, eq), cols, i + 1)

RECURSIVE ExpandVars(_, _)
ExpandVars(c, vs) ==
    IF vs = <<>> THEN c
    ELSE ExpandVars(ExpandColumns(c, c.column_bindings[Head(vs)], 2), Tail(vs))

\* expand_column_bindings: emit the equalities between the columns of each variable.
ExpandColumnBindings(c) ==
    IF IsKnownEmpty(c) THEN c
    ELSE ExpandVars(c, SortedVars(DOMAIN c.column_bindings))

\* prune_extracted_types: a variable with a single known type needs no type tag.
PruneExtractedTypes(c) ==
    IF IsKnownEmpty(c) THEN c
    ELSE [c EXCEPT !.extracted_types =
            Restrict(@, {v \in DOMAIN @ : Cardinality(KnownTypesOf(c, v)) # 1})]

RECURSIVE RequireVars(_, _)
RequireVars(c, vs) ==
    IF vs = <<>> THEN c
    ELSE LET v == Head(vs)
             both == KnownTypesOf(c, v) \cap c.required_types[v]
         IN  IF IsKnownEmpty(c) THEN c
             ELSE IF both = {} THEN MarkKnownEmpty(c, "NoValidTypes")
             ELSE RequireVars([c EXCEPT !.known_types = Put(@, v, both)], Tail(vs))

Ok(c) == [err |-> "None", var |-> "", cc |-> c]

Err(kind, v, c) == [err |-> kind, var |-> v, cc |-> c]

\* process_required_types: known_types must meet required_types.
ProcessRequiredTypes(c) ==
    IF IsKnownEmpty(c) THEN Ok(c)
    ELSE Ok(RequireVars(c, SortedVars(DOMAIN c.required_types)))

----------------------------------------------------------------------------
(* `not` / `not-join` *)

Not(clauses) == [kind |-> "not", unify |-> "Implicit", vars |-> {}, clauses |-> clauses]

NotJoin(vs, clauses) ==
    [kind |-> "not", unify |-> "Explicit", vars |-> vs, clauses |-> clauses]

PlaceVars(place) == IF place.p = "var" THEN {place.name} ELSE {}

RECURSIVE CollectMentionedVariables(_)
\* All the variables mentioned in the clauses.
CollectMentionedVariables(clauses) ==
    IF clauses = <<>> THEN {}
    ELSE LET c == Head(clauses)
             here == IF c.kind = "pattern"
                     THEN PlaceVars(c.e) \cup PlaceVars(c.a) \cup PlaceVars(c.v)
                     ELSE IF c.kind = "or" THEN CollectMentionedVariables(c.branches)
                     ELSE IF c.unify = "Explicit" THEN c.vars
                     ELSE CollectMentionedVariables(c.clauses)
         IN  here \cup CollectMentionedVariables(Tail(clauses))

\* Unified, were an explicit list ignored in favour of the mentioned variables.
Unified_Mentioned(not_join) == CollectMentionedVariables(not_join.clauses)

\* let unified = match not_join.unify_vars { ... }
Unified(not_join) ==
    IF not_join.unify = "Implicit"
    THEN CollectMentionedVariables(not_join.clauses)
    ELSE not_join.vars

\* use_as_template: a fresh CC that keeps, of the parent, the input variables
\* and the known types of the given variables, and numbers its aliases from
\* the parent's current count with a counter of its own.
UseAsTemplate(c, vs) ==
    [DefaultCC EXCEPT !.alias_counter   = c.alias_counter,
                      !.input_variables = c.input_variables \cap vs,
                      !.known_types     = Restrict(c.known_types, vs)]

\* AliasCounterAfterChild, were one counter shared by the parent and its child.
AliasCounterAfterChild_Shared(parent, child) == child.alias_counter

\* Each CC carries its own alias counter: the parent's count after its child
\* has allocated aliases is the parent's own.
AliasCounterAfterChild(parent, child) == parent.alias_counter

\* SeedVariable without the bail!: an unbound variable is passed over.
SeedVariable_NoBail(self, template, v) ==
    IF Has(self.value_bindings, v)
    THEN Ok([template EXCEPT !.value_bindings = Put(@, v, self.value_bindings[v])])
    ELSE IF Has(self.column_bindings, v)
    THEN Ok([template EXCEPT !.column_bindings = Put(@, v, <<self.column_bindings[v][1]>>)])
    ELSE Ok(template)

\* SeedVariable, were the whole column list of the parent cloned.
SeedVariable_AllColumns(self, template, v) ==
    IF Has(self.value_bindings, v)
    THEN Ok([template EXCEPT !.value_bindings = Put(@, v, self.value_bindings[v])])
    ELSE IF Has(self.column_bindings, v)
    THEN Ok([template EXCEPT !.column_bindings = Put(@, v, self.column_bindings[v])])
    ELSE Err("UnboundVariable", v, template)

\* SeedVariable, were a column-bound variable left without its parent column.
SeedVariable_NoColumn(self, template, v) ==
    IF Has(self.value_bindings, v)
    THEN Ok([template EXCEPT !.value_bindings = Put(@, v, self.value_bindings[v])])
    ELSE IF Has(self.column_bindings, v)
    THEN Ok(template)
    ELSE Err("UnboundVariable", v, template)

\* SeedVariable, were the column binding looked for before the value binding.
SeedVariable_ColumnFirst(self, template, v) ==
    IF Has(self.column_bindings, v)
    THEN Ok([template EXCEPT !.column_bindings = Put(@, v, <<self.column_bindings[v][1]>>)])
    ELSE IF Has(self.value_bindings, v)
    THEN Ok([template EXCEPT !.value_bindings = Put(@, v, self.value_bindings[v])])
    ELSE Err("UnboundVariable", v, template)

\* SeedVariable, were the parent's value binding not inserted.
SeedVariable_DropValue(self, template, v) ==
    IF Has(self.value_bindings, v)
    THEN Ok(template)
    ELSE IF Has(self.column_bindings, v)
    THEN Ok([template EXCEPT !.column_bindings = Put(@, v, <<self.column_bindings[v][1]>>)])
    ELSE Err("UnboundVariable", v, template)

\* The body of `for v in unified.iter()`.
SeedVariable(self, template, v) ==
    IF Has(self.value_bindings, v)
    THEN Ok([template EXCEPT !.value_bindings = Put(@, v, self.value_bindings[v])])
    ELSE IF Has(self.column_bindings, v)
    THEN Ok([template EXCEPT !.column_bindings = Put(@, v, <<self.column_bindings[v][1]>>)])
    ELSE Err("UnboundVariable", v, template)

RECURSIVE SeedTemplate(_, _, _)
\* for v in unified.iter() { ... }, in the BTreeSet's order; bail! ends the loop.
SeedTemplate(self, template, vs) ==
    IF vs = <<>> THEN Ok(template)
    ELSE LET r == SeedVariable(self, template, Head(vs))
         IN  IF r.err # "None" THEN r ELSE SeedTemplate(self, r.cc, Tail(vs))

\* The steps of apply_not_join after apply_clauses, in the order of the code;
\* StepsTo(n) is the part of them that has run when the n-th has.
PostSteps ==
    <<"is_known_empty", "expand_column_bindings", "is_known_empty",
      "prune_extracted_types", "is_known_empty", "process_required_types",
      "is_known_empty">>

StepsTo(n) == SubSeq(PostSteps, 1, n)

\* PostProcessTemplate without the is_known_empty tests.
PostProcessTemplate_NoEmptyTests(template) ==
    [empty_at |-> "none",
     steps |-> <<"expand_column_bindings", "prune_extracted_types",
                 "process_required_types">>,
     r |-> ProcessRequiredTypes(PruneExtractedTypes(ExpandColumnBindings(template)))]

\* PostProcessTemplate without the call of expand_column_bindings.
PostProcessTemplate_NoExpand(template) ==
    IF IsKnownEmpty(template)
    THEN [empty_at |-> "clauses", steps |-> StepsTo(1), r |-> Ok(template)]
    ELSE LET t2 == PruneExtractedTypes(template) IN
         IF IsKnownEmpty(t2)
         THEN [empty_at |-> "prune", steps |-> StepsTo(1) \o SubSeq(PostSteps, 4, 5),
               r |-> Ok(t2)]
    ELSE LET r3 == ProcessRequiredTypes(t2) IN
         IF r3.err # "None"
         THEN [empty_at |-> "none", steps |-> StepsTo(1) \o SubSeq(PostSteps, 4, 6),
               r |-> r3]
    ELSE [empty_at |-> IF IsKnownEmpty(r3.cc) THEN "required" ELSE "none",
          steps |-> StepsTo(1) \o SubSeq(PostSteps, 4, 7), r |-> r3]

\* PostProcessTemplate, were the types pruned before the columns are expanded.
PostProcessTemplate_PruneFirst(template) ==
    IF IsKnownEmpty(template)
    THEN [empty_at |-> "clauses", steps |-> StepsTo(1), r |-> Ok(template)]
    ELSE LET r3 == ProcessRequiredTypes(ExpandColumnBindings(PruneExtractedTypes(template)))
         IN  [empty_at |-> IF r3.err = "None" /\ IsKnownEmpty(r3.cc) THEN "required"
                           ELSE "none",
              steps |-> <<"is_known_empty", "prune_extracted_types", "is_known_empty",
                          "expand_column_bindings", "is_known_empty",
                          "process_required_types", "is_known_empty">>,
              r |-> r3]

\* The three steps after apply_clauses, each followed by the is_known_empty
\* test: the step after which the template is known-empty ("clauses",
\* "expand", "prune", "required"), or "none", with the template at that point
\* and the steps that have run.
PostProcessTemplate(template) ==
    IF IsKnownEmpty(template)
    THEN [empty_at |-> "clauses", steps |-> StepsTo(1), r |-> Ok(template)]
    ELSE LET t1 == ExpandColumnBindings(template) IN
         IF IsKnownEmpty(t1)
         THEN [empty_at |-> "expand", steps |-> StepsTo(3), r |-> Ok(t1)]
    ELSE LET t2 == PruneExtractedTypes(t1) IN
         IF IsKnownEmpty(t2)
         THEN [empty_at |-> "prune", steps |-> StepsTo(5), r |-> Ok(t2)]
    ELSE LET r3 == ProcessRequiredTypes(t2) IN
         IF r3.err # "None"
         THEN [empty_at |-> "none", steps |-> StepsTo(6), r |-> r3]
    ELSE IF IsKnownEmpty(r3.cc)
         THEN [empty_at |-> "required", steps |-> StepsTo(7), r |-> r3]
    ELSE [empty_at |-> "none", steps |-> StepsTo(7), r |-> r3]

\* ImposesNoConstraint, were the test for an empty `wheres` missing.
ImposesNoConstraint_Never(template) == FALSE

\* if template.wheres.is_empty() { return Ok(()) }
ImposesNoConstraint(template) == template.wheres = <<>>

\* EmitNotExists, were the constraint put in front of the parent's `wheres`.
EmitNotExists_Prepend(self, template) ==
    [self EXCEPT !.wheres = <<NotExists(template)>> \o @]

\* EmitNotExists, were the template's tables also added to the parent's `from`.
EmitNotExists_Leak(self, template) ==
    [self EXCEPT !.wheres = Append(@, NotExists(template)),
                 !.from = @ \o template.from]

\* EmitNotExists, were the parent rebuilt around the new constraint without
\* its empty_because.
EmitNotExists_Unmark(self, template) ==
    [self EXCEPT !.wheres = Append(@, NotExists(template)),
                 !.empty_because = "None"]

\* self.wheres.add_intersection(ColumnConstraint::NotExists(subquery))
EmitNotExists(self, template) == AddIntersection(self, NotExists(template))

----------------------------------------------------------------------------
(* `or` whose branches are patterns over one table *)

Or(branches) == [kind |-> "or", branches |-> branches]

\* The CC each branch is algebrized against: a template of the enclosing CC
\* seeded as for a negation, except that a variable the enclosing CC does not
\* bind is left for the branches to bind.
OrTemplate(self, unified) ==
    [UseAsTemplate(self, unified) EXCEPT
        !.value_bindings  = Restrict(self.value_bindings, unified),
        !.column_bindings =
            [v \in (unified \cap DOMAIN self.column_bindings) \ DOMAIN self.value_bindings
                |-> <<self.column_bindings[v][1]>>]]

\* The columns a branch bound beyond those its template was seeded with.
BranchColumns(template, branch, v) ==
    IF ~Has(branch.column_bindings, v) THEN <<>>
    ELSE SubSeq(branch.column_bindings[v],
                (IF Has(template.column_bindings, v) THEN 2 ELSE 1),
                Len(branch.column_bindings[v]))

\* OrConstraints, were the branches conjoined instead of alternated.
OrConstraints_Conjoined(alive) ==
    IF Len(alive) = 1 THEN alive[1].wheres
    ELSE alive[1].wheres \o alive[2].wheres

\* What the surviving branches add to the enclosing `wheres`: the constraints
\* of a single survivor, or one ColumnAlternation of the survivors'
\* intersections.
OrConstraints(alive) ==
    IF Len(alive) = 1 THEN alive[1].wheres
    ELSE <<Alternation([i \in 1..Len(alive) |-> alive[i].wheres])>>

\* The enclosing CC with the surviving branches' table, constraints, columns
\* and types (per variable, the union over the survivors).
MergeOr(self, template, alive) ==
    [self EXCEPT
        !.alias_counter   = alive[1].alias_counter,
        !.from            = @ \o alive[1].from,
        !.wheres          = @ \o OrConstraints(alive),
        !.column_bindings =
            [v \in DOMAIN self.column_bindings \cup DOMAIN alive[1].column_bindings |->
                (IF Has(self.column_bindings, v) THEN self.column_bindings[v] ELSE <<>>)
                    \o BranchColumns(template, alive[1], v)],
        !.known_types     =
            [v \in DOMAIN self.known_types \cup DOMAIN alive[1].known_types |->
                KnownTypesOf(self, v)
                    \cap UNION {KnownTypesOf(alive[i], v) : i \in 1..Len(alive)}]]

\* OrAllEmpty, were an `or` without a surviving branch passed over.
OrAllEmpty_Ignore(self) == self

\* No branch survives: the `or` matches nothing.
OrAllEmpty(self) == MarkKnownEmpty(self, "NonMatchingOr")

\* apply_or_join for an `or` of patterns: every branch is algebrized against
\* its own copy of the template, so all of them name the same table alias.
ApplyOr(self, or) ==
    IF IsKnownEmpty(self) THEN self
    ELSE LET unified  == CollectMentionedVariables(or.branches)
             template == OrTemplate(self, unified)
             branches == [i \in 1..Len(or.branches) |-> ApplyPattern(template, or.branches[i])]
             alive    == SelectSeq(branches, LAMBDA b : ~IsKnownEmpty(b))
         IN  IF alive = <<>> THEN OrAllEmpty(self)
             ELSE MergeOr(self, template, alive)

\* What a call of apply_not_join did: its Result (err, var), the parent after
\* the call (cc), the template after the seeding loop (seeded) and when the
\* call returned (child), how the call ended (outcome), for a template found
\* known-empty the step after which it was found so (empty_at), and the steps
\* the call went through, in order (steps).
NotResult(err, v, self, seeded, child, outcome, empty_at, steps) ==
    [err |-> err, var |-> v, cc |-> self, seeded |-> seeded, child |-> child,
     outcome |-> outcome, empty_at |-> empty_at, steps |-> steps]

RECURSIVE ApplyNotJoin(_, _)

ApplyClause(c, clause) ==
    IF clause.kind = "pattern" THEN Ok(ApplyPattern(c, clause))
    ELSE IF clause.kind = "or" THEN Ok(ApplyOr(c, clause))
    ELSE LET r == ApplyNotJoin(c, clause) IN [err |-> r.err, var |-> r.var, cc |-> r.cc]

RECURSIVE ApplyClauses(_, _)
\* apply_clauses: each clause in order; the first error ends it.
ApplyClauses(c, clauses) ==
    IF clauses = <<>> THEN Ok(c)
    ELSE LET r == ApplyClause(c, Head(clauses))
         IN  IF r.err # "None" THEN r ELSE ApplyClauses(r.cc, Tail(clauses))

\* Lines 44-72: the post-processing result decides between the error of
\* process_required_types, the silent returns and the NotExists.
NotJoinFinish(self1, seeded, post) ==
    IF post.r.err # "None"
    THEN NotResult(post.r.err, post.r.var, self1, seeded.cc, post.r.cc,
                   "required_error", "none", <<"seed", "apply_clauses">> \o post.steps)
    ELSE IF post.empty_at # "none"
    THEN NotResult("None", "", self1, seeded.cc, post.r.cc, "empty", post.empty_at,
                   <<"seed", "apply_clauses">> \o post.steps)
    ELSE IF ImposesNoConstraint(post.r.cc)
    THEN NotResult("None", "", self1, seeded.cc, post.r.cc, "no_wheres", "none",
                   <<"seed", "apply_clauses">> \o post.steps \o <<"wheres_is_empty">>)
    ELSE NotResult("None", "", EmitNotExists(self1, post.r.cc), seeded.cc, post.r.cc,
                   "emitted", "none",
                   <<"seed", "apply_clauses">> \o post.steps
                       \o <<"wheres_is_empty", "add_intersection">>)

\* NotJoinAfterClauses, were the Result of apply_clauses dropped instead of
\* being returned with `?`.
NotJoinAfterClauses_SwallowError(self1, seeded, applied) ==
    NotJoinFinish(self1, seeded, PostProcessTemplate(applied.cc))

\* template.apply_clauses(known, not_join.clauses)?
NotJoinAfterClauses(self1, seeded, applied) ==
    IF applied.err # "None"
    THEN NotResult(applied.err, applied.var, self1, seeded.cc, applied.cc,
                   "clause_error", "none", <<"seed", "apply_clauses">>)
    ELSE NotJoinFinish(self1, seeded, PostProcessTemplate(applied.cc))

\* The parent's alias counter once the sub-clauses have been applied.
NotJoinWithChild(self, seeded, applied) ==
    NotJoinAfterClauses(
        [self EXCEPT !.alias_counter = AliasCounterAfterChild(self, applied.cc)],
        seeded, applied)

\* The end of the seeding loop: bail!, or on to the sub-clauses.
NotJoinAfterSeeding(self, not_join, seeded) ==
    IF seeded.err # "None"
    THEN NotResult(seeded.err, seeded.var, self, seeded.cc, seeded.cc, "unbound", "none",
                   <<"seed">>)
    ELSE NotJoinWithChild(self, seeded, ApplyClauses(seeded.cc, not_join.clauses))

\* let mut template = self.use_as_template(&unified), then the seeding loop.
NotJoinTemplate(self, unified) ==
    SeedTemplate(self, UseAsTemplate(self, unified), SortedVars(unified))

\* ConjoiningClauses::apply_not_join.
ApplyNotJoin(self, not_join) ==
    NotJoinAfterSeeding(self, not_join, NotJoinTemplate(self, Unified(not_join)))

----------------------------------------------------------------------------
(* The command-line reader *)

NewLine == "\n"

\* The first word of a command text and the Command it makes.
CommandKeywords ==
    (".q" :> "Query") @@ (".qp" :> "QueryPrepared") @@ (".t" :> "Transact")
      @@ (".x" :> "QueryExplain") @@ (".help" :> "Help")

\* Result<Command, Error>
CmdOk(kind, args) == [ok |-> TRUE, kind |-> kind, args |-> args]

CmdErr == [ok |-> FALSE, kind |-> "", args |-> <<>>]

\* Option<Command>
NoCommand == [some |-> FALSE, kind |-> "", args |-> <<>>]

SomeCommand(cmd) == [some |-> TRUE, kind |-> cmd.kind, args |-> cmd.args]

\* command(s): the command named by the first word, the rest being its
\* argument; a text that starts with no command word is an error.
ParseCommand(text) ==
    IF text # <<>> /\ Head(text) \in DOMAIN CommandKeywords
    THEN CmdOk(CommandKeywords[Head(text)], Tail(text))
    ELSE CmdErr

RECURSIVE BracketDepth(_, _)
\* The bracket depth after the text, or -1 once a bracket closes what was
\* not opened.
BracketDepth(text, depth) ==
    IF depth < 0 \/ text = <<>> THEN depth
    ELSE BracketDepth(Tail(text),
                      IF Head(text) = "[" THEN depth + 1
                      ELSE IF Head(text) = "]" THEN depth - 1
                      ELSE depth)

\* The text holds valid EDN: something other than newlines, every bracket closed.
ValidEdn(text) ==
    /\ \E i \in 1..Len(text) : text[i] # NewLine
    /\ BracketDepth(text, 0) = 0

Statements == {"Query", "QueryPrepared", "Transact", "QueryExplain"}

\* Command::is_complete: a query or transact is complete if it contains a valid EDN.
IsComplete(cmd) == cmd.kind \in Statements => ValidEdn(cmd.args)

\* InputReader::new
NewReader == [buffer |-> <<>>, in_process_cmd |-> NoCommand]

\* UserAction
TextInput(s) == [action |-> "TextInput", line |-> s]

Interrupt == [action |-> "Interrupt", line |-> <<>>]

Quit == [action |-> "Quit", line |-> <<>>]

\* let prompt = if self.in_process_cmd.is_some() { MORE_PROMPT } else { DEFAULT_PROMPT }
Prompt(r) == IF r.in_process_cmd.some THEN "mentat.> " ELSE "mentat=> "

\* InterruptInProcess, were the buffer kept.
InterruptInProcess_KeepBuffer(r) == [r EXCEPT !.in_process_cmd = NoCommand]

\* The arm `UserAction::Interrupt if self.in_process_cmd.is_some()`.
InterruptInProcess(r) == [r EXCEPT !.in_process_cmd = NoCommand, !.buffer = <<>>]

\* if !self.buffer.is_empty() { self.buffer.push('\n') }; self.buffer.push_str(&line)
PushLine(buf, line) == IF buf # <<>> THEN buf \o <<NewLine>> \o line ELSE line

\* let cmd = match &self.in_process_cmd { ... }
CommandFor(in_process, buf, line) ==
    IF in_process.some /\ in_process.kind \in {"QueryPrepared", "Query", "Transact"}
    THEN CmdOk(in_process.kind, in_process.args \o <<NewLine>> \o line)
    ELSE ParseCommand(buf)

\* The match on in_process_cmd reaches its last arm, `_ => command(&self.buffer)`.
CallsCommand(in_process) ==
    ~(in_process.some /\ in_process.kind \in {"QueryPrepared", "Query", "Transact"})

\* NeedsMore, were QueryExplain left out of the match arm.
NeedsMore_NoExplain(cmd) ==
    cmd.kind \in {"Query", "QueryPrepared", "Transact"} /\ ~IsComplete(cmd)

\* Command::Query(_) | QueryPrepared(_) | Transact(_) | QueryExplain(_) if !cmd.is_complete()
NeedsMore(cmd) == cmd.kind \in Statements /\ ~IsComplete(cmd)

\* What a call of read_input returns and the reader it leaves; `parsed` tells
\* whether command() was called, `entry` is the text given to add_history, if
\* any.
ReadOutcome(ret, r, cmd, parsed, added, entry) ==
    [ret |-> ret, reader |-> r, cmd |-> cmd, parsed |-> parsed, added |-> added,
     entry |-> entry]

\* StoreInProcess, were the command not remembered.
StoreInProcess_Forget(buf, cmd) == [buffer |-> buf, in_process_cmd |-> NoCommand]

\* self.in_process_cmd = Some(cmd), the buffer staying as it is.
StoreInProcess(buf, cmd) == [buffer |-> buf, in_process_cmd |-> SomeCommand(cmd)]

\* HistoryEntry, were the line just read the entry.
HistoryEntry_LastLine(buf, line) == line

\* let entry = self.buffer.clone()
HistoryEntry(buf, line) == buf

\* Lines 117-175, for the reader r left by the match on the user action.
ReadLine(r, line) ==
    LET buf == PushLine(r.buffer, line) IN
    IF buf = <<>>
    THEN ReadOutcome("Empty", [r EXCEPT !.buffer = buf], CmdErr, FALSE, FALSE, <<>>)
    ELSE LET cmd == CommandFor(r.in_process_cmd, buf, line) IN
         IF cmd.ok /\ NeedsMore(cmd)
         THEN ReadOutcome("More", StoreInProcess(buf, cmd),
                          cmd, CallsCommand(r.in_process_cmd), FALSE, <<>>)
         ELSE ReadOutcome(IF cmd.ok THEN "MetaCommand" ELSE "Err", NewReader, cmd,
                          CallsCommand(r.in_process_cmd), TRUE, HistoryEntry(buf, line))

\* InputReader::read_input, for the user action read_line returns.
ReadInput(r, user) ==
    IF user.action = "TextInput" THEN ReadLine(r, user.line)
    ELSE IF user.action = "Interrupt" /\ r.in_process_cmd.some
    THEN ReadLine(InterruptInProcess(r), <<>>)
    ELSE ReadOutcome("Eof", r, CmdErr, FALSE, FALSE, <<>>)

\* The lines a user types.
Lines ==
    { <<>>, <<".q", "[">>, <<".q", "[", "w", "]">>, <<".qp", "[">>, <<".t", "[">>,
      <<".x", "[">>, <<".help">>, <<"w">>, <<"]">> }

\* What read_line can return: a terminal reports interrupts, stdin does not.
UserActions(tty) ==
    {TextInput(l) : l \in Lines} \cup {Quit} \cup (IF tty THEN {Interrupt} ELSE {})

NoRead == [called |-> FALSE]

\* The reader before its first read, with no terminal.
ReaderIdle ==
    /\ interface = FALSE
    /\ buffer = <<>>
    /\ in_process_cmd = NoCommand
    /\ history = <<>>
    /\ history_file = <<>>
    /\ reads = 0
    /\ rd = NoRead

----------------------------------------------------------------------------
(* The constant projector *)

\* Rc<FindSpec>
FindSpecs == {"FindRel", "FindScalar", "FindColl", "FindTuple"}

\* QueryResults: the variant and the number of rows it holds.
QueryResults(kind, n) == [kind |-> kind, n |-> n]

\* Box<dyn Fn() -> QueryResults>: a closure that returns the same results at
\* every call, or one whose results depend on how often it has been called.
ConstantFactory(results) == [deterministic |-> TRUE, results |-> results]

CountingFactory(kind) == [deterministic |-> FALSE, results |-> QueryResults(kind, 0)]

Factories ==
    {ConstantFactory(QueryResults(k, n)) : k \in {"Rel", "Scalar"}, n \in 0..1}
      \cup {CountingFactory("Rel")}

\* (self.results_factory)(), at its n-th call counted from 0.
CallFactory(factory, n) ==
    IF factory.deterministic THEN factory.results
    ELSE [factory.results EXCEPT !.n = n]

\* ConstantProjector::new
NewConstantProjector(spec, factory) == [spec |-> spec, results_factory |-> factory]

\* QueryOutput { spec, results }
QueryOutput(spec, results) == [spec |-> spec, results |-> results]

\* ConstantProjector::project_without_rows, results_factory having been
\* called n times before.
ProjectWithoutRows(self, n) ==
    [ok |-> TRUE, output |-> QueryOutput(self.spec, CallFactory(self.results_factory, n)),
     factory_calls |-> n + 1]

\* Project, were the results made of the rows handed in.
Project_FromRows(self, schema, sqlite, rows, n) ==
    [ok |-> TRUE, output |-> QueryOutput(self.spec, QueryResults("Rel", rows)),
     factory_calls |-> n]

\* <ConstantProjector as Projector>::project
Project(self, schema, sqlite, rows, n) == ProjectWithoutRows(self, n)

\* The schemas, connections and row cursors (by their number of rows) handed
\* to project.
Schemas == {"schema_a", "schema_b"}

Connections == {"conn_a", "conn_b"}

RowCursors == 0..2

NoProjection == [called |-> FALSE]

\* No projector in use.
ProjectorIdle ==
    /\ projector = NewConstantProjector("FindRel", ConstantFactory(QueryResults("Rel", 0)))
    /\ factory_calls = 0
    /\ out = NoProjection
    /\ prev = NoProjection

----------------------------------------------------------------------------
(* The driver: algebrize *)

John == TypedString("John")

Ambar == TypedString("Ambar")

Daphne == TypedString("Daphne")

Eleven == TypedLong("11")

X == PVar("?x")

Y == PVar("?y")

Z == PVar("?z")

\* The :in list and the inputs given for it: none, ?y declared and unbound,
\* ?y bound to a string, ?y bound to a long.
InputChoices ==
    { [declared |-> {},     values |-> EmptyMap],
      [declared |-> {"?y"}, values |-> EmptyMap],
      [declared |-> {"?y"}, values |-> ("?y" :> John)],
      [declared |-> {"?y"}, values |-> ("?y" :> Eleven)] }

\* Top-level patterns a query is drawn from.
TopPatterns ==
    { Pattern(X, PKw(":foo/knows"), PLit(John)),
      Pattern(X, PKw(":foo/knows"), Y),
      Pattern(X, PKw(":foo/age"), PLit(Eleven)),
      Pattern(X, PKw(":foo/nope"), PLit(John)) }

\* Top-level scalar grounds a query is drawn from.
TopGrounds == {Ground("?y", John), Ground("?y", Eleven)}

\* Top-level negations a query is drawn from.
TopNots ==
    { Not(<<Pattern(X, PKw(":foo/parent"), PLit(Ambar)),
            Pattern(X, PKw(":foo/knows"), PLit(Daphne))>>),
      Not(<<Pattern(X, PKw(":foo/knows"), Y)>>),
      NotJoin({"?x", "?y"}, <<Pattern(X, PKw(":foo/parent"), Y)>>),
      Not(<<Pattern(X, PKw(":foo/nope"), PLit(John)),
            Pattern(X, PKw(":foo/parent"), PLit(Ambar)),
            Pattern(X, PKw(":foo/nope"), PLit(Daphne))>>),
      Not(<<Pattern(X, PKw(":foo/age"), Y)>>),
      NotJoin({"?x"}, <<Pattern(X, PKw(":foo/knows"), Y)>>),
      NotJoin({"?x"}, <<Pattern(Z, PAny, PAny)>>),
      NotJoin({"?x"}, <<Not(<<Pattern(X, PKw(":foo/knows"), Z)>>)>>),
      Not(<<Pattern(X, PKw(":foo/parent"), PLit(Ambar)),
            Not(<<Pattern(X, PKw(":foo/knows"), PLit(Daphne))>>)>>),
      Not(<<Or(<<Pattern(X, PKw(":foo/knows"), PLit(John)),
                 Pattern(X, PKw(":foo/knows"), PLit(Ambar))>>),
            Pattern(X, PKw(":foo/parent"), PLit(Daphne))>>),
      Not(<<Pattern(X, PKw(":foo/parent"), PLit(Daphne)),
            Or(<<Pattern(X, PKw(":foo/knows"), PLit(John)),
                 Pattern(X, PKw(":foo/nope"), PLit(Ambar))>>)>>),
      Not(<<Pattern(X, PKw(":foo/parent"), PLit(Daphne)),
            Or(<<Pattern(X, PKw(":foo/knows"), PLit(John)),
                 Pattern(X, PKw(":foo/nope"), PLit(Daphne)),
                 Pattern(X, PKw(":foo/name"), PLit(Ambar))>>),
            Pattern(X, PKw(":foo/knows"), PLit(Daphne))>>),
      Not(<<Pattern(X, PKw(":foo/parent"), PLit(Daphne)),
            Or(<<Pattern(X, PKw(":foo/nope"), PLit(John)),
                 Pattern(X, PKw(":foo/nope"), PLit(Ambar))>>)>>) }

\* Step 2 of algebrize: the inputs' values and their types.
InstallInputs(in) ==
    [DefaultCC EXCEPT !.input_variables = in.declared,
                      !.value_bindings  = in.values,
                      !.known_types     = [v \in DOMAIN in.values |-> {in.values[v].type}]]

\* Steps 4 and 5 of algebrize, for the find-spec [:find ?x].
FinishAlgebrize(c) ==
    LET r == ProcessRequiredTypes(PruneExtractedTypes(ExpandColumnBindings(c)))
    IN  IF r.err # "None" THEN r
        ELSE IF ~IsKnownEmpty(r.cc) /\ ~Has(r.cc.column_bindings, "?x")
        THEN Err("UnboundVariable", "?x", r.cc)
        ELSE r

ResultOf(r) == [err |-> r.err, var |-> r.var]

NoCall == [called |-> FALSE]

\* No negation dropped so far.
NoDrop == [some |-> FALSE, at |-> 0, taken |-> 0]

\* The negation dropped by the call with result r: the number of tables the
\* parent held and the number of aliases the child took.
DropOf(self, r) == [some |-> TRUE, at |-> Len(self.from), taken |-> Len(r.child.from)]

Init ==
    /\ \E in \in InputChoices :
          /\ cc = InstallInputs(in)
          /\ ccRef = InstallInputs(in)
    /\ pc = "clauses"
    /\ result = ResultOf(Ok(DefaultCC))
    /\ nclauses = 0
    /\ last = NoCall
    /\ dropped = NoDrop
    /\ ReaderIdle
    /\ ProjectorIdle

\* A top-level pattern clause.
ApplyPatternStep ==
    /\ pc = "clauses"
    /\ nclauses < MaxClauses
    /\ \E p \in TopPatterns :
          /\ cc' = ApplyPattern(cc, p)
          /\ ccRef' = ApplyPattern(ccRef, p)
    /\ nclauses' = nclauses + 1
    /\ last' = NoCall
    /\ UNCHANGED dropped
    /\ UNCHANGED <<pc, result>>
    /\ UNCHANGED <<readerVars, projectorVars>>

\* A top-level scalar `ground` clause.
ApplyGroundStep ==
    /\ pc = "clauses"
    /\ nclauses < MaxClauses
    /\ \E g \in TopGrounds :
          /\ cc' = ApplyGround(cc, g)
          /\ ccRef' = ApplyGround(ccRef, g)
    /\ nclauses' = nclauses + 1
    /\ last' = NoCall
    /\ UNCHANGED dropped
    /\ UNCHANGED <<pc, result>>
    /\ UNCHANGED <<readerVars, projectorVars>>

\* A top-level `not` / `not-join` clause.  ccRef skips the negation when its
\* template was found known-empty.
ApplyNotStep ==
    /\ pc = "clauses"
    /\ nclauses < MaxClauses
    /\ \E nj \in TopNots :
          LET r == ApplyNotJoin(cc, nj) IN
          /\ cc' = r.cc
          /\ ccRef' = IF IsKnownEmpty(r.child) \/ r.err # "None" THEN ccRef
                      ELSE ApplyNotJoin(ccRef, nj).cc
          /\ last' = [called |-> TRUE, not_join |-> nj, pre |-> cc, r |-> r]
          /\ dropped' = IF r.err = "None" /\ IsKnownEmpty(r.child)
                        THEN DropOf(cc, r) ELSE dropped
          /\ result' = ResultOf(r)
          /\ pc' = IF r.err # "None" THEN "error" ELSE pc
    /\ nclauses' = nclauses + 1
    /\ UNCHANGED <<readerVars, projectorVars>>

\* The end of the where-list.
Finish ==
    /\ pc = "clauses"
    /\ LET r == FinishAlgebrize(cc) IN
          /\ cc' = r.cc
          /\ result' = ResultOf(r)
          /\ pc' = IF r.err # "None" THEN "error" ELSE "done"
    /\ ccRef' = FinishAlgebrize(ccRef).cc
    /\ last' = NoCall
    /\ UNCHANGED dropped
    /\ UNCHANGED nclauses
    /\ UNCHANGED <<readerVars, projectorVars>>

Next == ApplyPatternStep \/ ApplyGroundStep \/ ApplyNotStep \/ Finish

Spec == Init /\ [][Next]_vars

----------------------------------------------------------------------------
(* The read loop of the command line *)

\* A session: InputReader::new, with or without a terminal, and no query
\* being algebrized.
InitInput ==
    /\ cc = DefaultCC
    /\ ccRef = DefaultCC
    /\ pc = "clauses"
    /\ result = ResultOf(Ok(DefaultCC))
    /\ nclauses = 0
    /\ last = NoCall
    /\ dropped = NoDrop
    /\ interface \in BOOLEAN
    /\ buffer = NewReader.buffer
    /\ in_process_cmd = NewReader.in_process_cmd
    /\ history = <<>>
    /\ history_file = <<>>
    /\ reads = 0
    /\ rd = NoRead
    /\ ProjectorIdle

\* add_history: the terminal's history gets the entry and is saved.
AddHistory(tty, h, added, entry) == IF tty /\ added THEN Append(h, entry) ELSE h

\* One call of read_input.  The session ends when it returns Eof.
ReadInputStep ==
    /\ reads < MaxReads
    /\ ~(rd.called /\ rd.ret = "Eof")
    /\ \E user \in UserActions(interface) :
          LET pre == [buffer |-> buffer, in_process_cmd |-> in_process_cmd]
              got == ReadInput(pre, user)
          IN  /\ buffer' = got.reader.buffer
              /\ in_process_cmd' = got.reader.in_process_cmd
              /\ history' = AddHistory(interface, history, got.added, got.entry)
              /\ history_file' = IF interface /\ got.added THEN history' ELSE history_file
              /\ rd' = [called |-> TRUE, user |-> user, prompt |-> Prompt(pre),
                        pre |-> pre, pre_history |-> history, cmd |-> got.cmd,
                        parsed |-> got.parsed, added |-> got.added,
                        entry |-> got.entry, ret |-> got.ret]
    /\ reads' = reads + 1
    /\ UNCHANGED interface
    /\ UNCHANGED <<algebrizerVars, projectorVars>>

NextInput == ReadInputStep

SpecInput == InitInput /\ [][NextInput]_vars

----------------------------------------------------------------------------
(* Projections of a constant projector *)

\* ConstantProjector::new with any find-spec and factory; no query being
\* algebrized, no session open.
InitProjector ==
    /\ cc = DefaultCC
    /\ ccRef = DefaultCC
    /\ pc = "clauses"
    /\ result = ResultOf(Ok(DefaultCC))
    /\ nclauses = 0
    /\ last = NoCall
    /\ dropped = NoDrop
    /\ ReaderIdle
    /\ \E spec \in FindSpecs, factory \in Factories :
          projector = NewConstantProjector(spec, factory)
    /\ factory_calls = 0
    /\ out = NoProjection
    /\ prev = NoProjection

\* A call of project.
ProjectStep ==
    /\ factory_calls < MaxProjects
    /\ \E schema \in Schemas, sqlite \in Connections, rows \in RowCursors :
          LET r == Project(projector, schema, sqlite, rows, factory_calls)
          IN  /\ out' = [called |-> TRUE, op |-> "project", schema |-> schema,
                         sqlite |-> sqlite, rows |-> rows, calls_before |-> factory_calls,
                         ok |-> r.ok, output |-> r.output]
              /\ factory_calls' = r.factory_calls
    /\ prev' = out
    /\ UNCHANGED <<projector, algebrizerVars, readerVars>>

\* A call of project_without_rows.
ProjectWithoutRowsStep ==
    /\ factory_calls < MaxProjects
    /\ LET r == ProjectWithoutRows(projector, factory_calls)
       IN  /\ out' = [called |-> TRUE, op |-> "project_without_rows",
                      schema |-> "", sqlite |-> "", rows |-> 0,
                      calls_before |-> factory_calls, ok |-> r.ok, output |-> r.output]
           /\ factory_calls' = r.factory_calls
    /\ prev' = out
    /\ UNCHANGED <<projector, algebrizerVars, readerVars>>

NextProjector == ProjectStep \/ ProjectWithoutRowsStep

SpecProjector == InitProjector /\ [][NextProjector]_vars

----------------------------------------------------------------------------
(* Properties of apply_not_join, stated on the last top-level call:         *)
(* last.pre is the parent before the call, last.r what the call did and cc  *)
(* the parent after it.                                                     *)

\* The unification set of a negation: the mentioned variables of an implicit
\* `not`, the given list of a `not-join`.
UnificationSet(nj) ==
    IF nj.unify = "Implicit" THEN CollectMentionedVariables(nj.clauses) ELSE nj.vars

\* The variables of U with neither a value binding nor a column binding in c.
UnboundIn(c, U) ==
    {v \in U : ~Has(c.value_bindings, v) /\ ~Has(c.column_bindings, v)}

\* The call went through seeding, sub-clauses and post-processing without error.
Processed == last.called /\ last.r.err = "None"

IsNotExists(w) == w.kind = "NotExists"

CountNotExists(ws) == Cardinality({i \in 1..Len(ws) : IsNotExists(ws[i])})

\* C1: when some variable of U has neither a value binding nor a column
\* binding in the parent, apply_not_join fails with UnboundVariable naming
\* such a variable (the first of them in the set's order), the parent's
\* `wheres` is unchanged and algebrization is aborted.
C1_UnboundVariableFails ==
    last.called =>
        LET unbound == UnboundIn(last.pre, UnificationSet(last.not_join))
        IN  unbound # {} =>
              /\ last.r.err = "UnboundVariable"
              /\ last.r.var = Head(SortedVars(unbound))
              /\ result = [err |-> "UnboundVariable", var |-> last.r.var]
              /\ pc = "error"
              /\ cc.wheres = last.pre.wheres
              /\ CountNotExists(cc.wheres) = CountNotExists(last.pre.wheres)

\* C1 witness: an implicit `not` failed on a declared-but-unbound input
\* variable, the parent already holding constraints.
C1_Witness ==
    /\ last.called
    /\ last.not_join.unify = "Implicit"
    /\ last.r.err = "UnboundVariable"
    /\ last.r.var \in last.pre.input_variables
    /\ last.r.var \in UnboundIn(last.pre, UnificationSet(last.not_join))
    /\ last.pre.wheres # <<>>

\* C2: when the template is known-empty after the sub-clauses or after one of
\* the three post-processing steps, apply_not_join returns Ok, does not mark
\* the parent known-empty and leaves its `wheres` and `from` alone; and the
\* CC agrees on `wheres` and `from` with the CC of the same where-list without
\* such negations, at every step and when algebrize is done.
C2_ContradictoryNegationDropped ==
    /\ (last.called /\ IsKnownEmpty(last.r.child)
          /\ last.r.outcome \notin {"unbound", "clause_error", "required_error"})
       => /\ last.r.err = "None"
          /\ last.r.empty_at \in {"clauses", "expand", "prune", "required"}
          /\ pc = "clauses"
          /\ cc.empty_because = last.pre.empty_because
          /\ cc.wheres = last.pre.wheres
          /\ cc.from = last.pre.from
    /\ pc # "error" => (cc.wheres = ccRef.wheres /\ cc.from = ccRef.from)

\* C2 witness: a negation with one contradictory sub-clause among several,
\* whose template already held a constraint, was dropped from a parent that
\* is not known-empty and holds constraints.
C2_Witness ==
    /\ last.called
    /\ last.r.err = "None"
    /\ IsKnownEmpty(last.r.child)
    /\ last.r.child.wheres # <<>>
    /\ Len(last.not_join.clauses) >= 1
    /\ ~IsKnownEmpty(cc)
    /\ cc.wheres # <<>>

\* C3: when every variable of U is bound in the parent and the template ends
\* processing not known-empty with a non-empty `wheres`, the parent's `wheres`
\* after the call is its `wheres` before the call followed by one
\* NotExists(Subquery(template)).
C3_NotExistsAppended ==
    (/\ Processed
     /\ UnboundIn(last.pre, UnificationSet(last.not_join)) = {}
     /\ ~IsKnownEmpty(last.r.child)
     /\ last.r.child.wheres # <<>>)
    => /\ cc.wheres = Append(last.pre.wheres, NotExists(last.r.child))
       /\ CountNotExists(cc.wheres) = CountNotExists(last.pre.wheres) + 1

\* C3 witness: a NotExists was emitted after constraints of earlier clauses.
C3_Witness ==
    /\ Processed
    /\ last.r.outcome = "emitted"
    /\ ~IsKnownEmpty(last.r.child)
    /\ last.r.child.wheres # <<>>
    /\ Len(last.pre.wheres) >= 2

\* C4: when the template ends processing not known-empty with an empty
\* `wheres`, apply_not_join returns Ok and the parent's `wheres` is unchanged.
C4_EmptyWheresDropped ==
    (/\ last.called
     /\ last.r.outcome \notin {"unbound", "clause_error", "required_error"}
     /\ ~IsKnownEmpty(last.r.child)
     /\ last.r.child.wheres = <<>>)
    => /\ last.r.err = "None"
       /\ pc = "clauses"
       /\ cc.wheres = last.pre.wheres

\* C4 witness: a negation whose template bound a table but imposed no
\* constraint was dropped from a parent holding constraints.
C4_Witness ==
    /\ Processed
    /\ ~IsKnownEmpty(last.r.child)
    /\ last.r.child.wheres = <<>>
    /\ last.r.child.from # <<>>
    /\ last.pre.wheres # <<>>

\* The aliases of a `from` list, in order.
FromAliases(c) == [i \in 1..Len(c.from) |-> c.from[i].alias]

AliasSet(c) == {c.from[i].alias : i \in 1..Len(c.from)}

\* The subquery of the NotExists at the end of the parent's `wheres`.
EmbeddedChild == cc.wheres[Len(cc.wheres)].subquery

Emitted == Processed /\ last.r.outcome = "emitted"

RECURSIVE SubCCs(_)
\* A CC and the subquery CCs nested in its `wheres`, at any depth.
SubCCs(c) ==
    {c} \cup UNION { SubCCs(c.wheres[i].subquery) :
                       i \in {k \in 1..Len(c.wheres) : IsNotExists(c.wheres[k])} }

ValueTypesSingleton(c) ==
    \A v \in DOMAIN c.value_bindings :
        Has(c.known_types, v) /\ c.known_types[v] = {c.value_bindings[v].type}

\* C6: in the CC, in the subqueries nested in it and in the template of a
\* negation (seeded, processed, dropped or emitted), a variable with a value
\* binding has the singleton of the value's type as its known types; and the
\* parent's value binding of a variable of U is the template's.
C6_ValueBindingHasSingletonType ==
    /\ \A c \in SubCCs(cc) : ValueTypesSingleton(c)
    /\ last.called =>
          /\ ValueTypesSingleton(last.r.seeded)
          /\ \A c \in SubCCs(last.r.child) : ValueTypesSingleton(c)
    /\ (last.called /\ last.r.outcome # "unbound") =>
          \A v \in UnificationSet(last.not_join) \cap DOMAIN last.pre.value_bindings :
              /\ Has(last.r.seeded.value_bindings, v)
              /\ last.r.seeded.value_bindings[v] = last.pre.value_bindings[v]
              /\ Has(last.r.child.value_bindings, v)
              /\ last.r.child.value_bindings[v] = last.pre.value_bindings[v]
              /\ last.r.child.known_types[v] = {last.pre.value_bindings[v].type}

\* C6 witness: an emitted subquery carries a value binding of its parent.
C6_Witness ==
    /\ Emitted
    /\ \E v \in UnificationSet(last.not_join) :
          /\ Has(last.pre.value_bindings, v)
          /\ Has(EmbeddedChild.value_bindings, v)
          /\ EmbeddedChild.known_types[v] = {"String"}

\* C7: the template's input variables are the parent's input variables that
\* are in U, after seeding and when the call returns.
C7_ChildInputVariables ==
    last.called =>
        LET want == UnificationSet(last.not_join) \cap last.pre.input_variables
        IN  /\ last.r.seeded.input_variables = want
            /\ last.r.child.input_variables = want
            /\ Emitted => EmbeddedChild.input_variables = want

\* C7 witness: an emitted negation whose clauses mention an input variable of
\* the parent that is not in U, and whose U holds a variable that is no input.
C7_Witness ==
    /\ Emitted
    /\ (CollectMentionedVariables(last.not_join.clauses) \cap last.pre.input_variables)
          \ UnificationSet(last.not_join) # {}
    /\ UnificationSet(last.not_join) \ last.pre.input_variables # {}
    /\ EmbeddedChild.input_variables = {}

\* C8: whether the negation was emitted, dropped or failed, the parent's from,
\* column_bindings, value_bindings, known_types and input_variables are what
\* they were before the call, and no table of the template is a table of the
\* parent or the table of a column the parent binds.
C8_NoLeakIntoParent ==
    last.called =>
        /\ cc.from = last.pre.from
        /\ cc.column_bindings = last.pre.column_bindings
        /\ cc.value_bindings = last.pre.value_bindings
        /\ cc.known_types = last.pre.known_types
        /\ cc.input_variables = last.pre.input_variables
        /\ AliasSet(last.r.child) \cap AliasSet(cc) = {}
        /\ \A v \in DOMAIN cc.column_bindings :
              \A i \in 1..Len(cc.column_bindings[v]) :
                  cc.column_bindings[v][i].alias \notin AliasSet(last.r.child)

\* C8 witness: an emitted subquery has a table of its own and binds a variable
\* the parent does not bind.
C8_Witness ==
    /\ Emitted
    /\ EmbeddedChild.from # <<>>
    /\ (DOMAIN EmbeddedChild.column_bindings) \ (DOMAIN cc.column_bindings) # {}

RECURSIVE AliasSeq(_, _)
\* The aliases of a CC's `from` followed by those of the subqueries nested in
\* its `wheres` from position i on.
AliasSeq(c, i) ==
    IF i > Len(c.wheres) THEN <<>>
    ELSE (IF i = 1 THEN FromAliases(c) ELSE <<>>)
         \o (IF IsNotExists(c.wheres[i]) THEN AliasSeq(c.wheres[i].subquery, 1) ELSE <<>>)
         \o AliasSeq(c, i + 1)

AllAliases(c) == IF c.wheres = <<>> THEN FromAliases(c) ELSE AliasSeq(c, 1)

NoDuplicates(seq) == \A i, j \in 1..Len(seq) : seq[i] = seq[j] => i = j

C11_StickyEmptiness ==
    [][IsKnownEmpty(cc) => cc'.empty_because = cc.empty_because]_vars

\* C11 witness: a negation was emitted into a CC that was already known-empty
\* and still is.
C11_Witness ==
    /\ Emitted
    /\ IsKnownEmpty(last.pre)
    /\ IsKnownEmpty(cc)

\* C12: apply_not_join on a parent that is already known-empty leaves the
\* parent as it was.
C12_NoOpOnKnownEmptyParent ==
    (last.called /\ IsKnownEmpty(last.pre)) => cc = last.pre

----------------------------------------------------------------------------
(* Column equalities *)

IsColumnEquality(w) == w.kind = "Equals" /\ w.right.t = "Column"

WheresSet(c) == {c.wheres[i] : i \in 1..Len(c.wheres)}

MultiColumnVars(c) == {v \in DOMAIN c.column_bindings : Len(c.column_bindings[v]) >= 2}

\* Every column of a variable after the first is equated with the first.
HasAllEqualities(c) ==
    \A v \in DOMAIN c.column_bindings :
        \A i \in 2..Len(c.column_bindings[v]) :
            Equals(c.column_bindings[v][1], QColumn(c.column_bindings[v][i]))
                \in WheresSet(c)

\* No constraint that is not a column equality follows a column equality.
ColumnEqualitiesLast(c) ==
    \A i, j \in 1..Len(c.wheres) :
        (i < j /\ IsColumnEquality(c.wheres[i])) => IsColumnEquality(c.wheres[j])

\* C13 (as stated): while the clauses are being applied, a variable bound to
\* a further column already has the equality of that column with its first
\* column in `wheres`.
C13_EqualityAtBindingTime ==
    pc = "clauses" => HasAllEqualities(cc)

\* C13 (amended): binding a variable to a further column adds no constraint;
\* the equalities with the first column are added by expand_column_bindings
\* once all the clauses have been applied, so in the finished CC and in the
\* child of an emitted negation they are all present and follow the
\* constraints of every clause, a NotExists included.
C13_EqualityAfterClauses ==
    /\ pc = "clauses" => \A i \in 1..Len(cc.wheres) : ~IsColumnEquality(cc.wheres[i])
    /\ (pc = "done" /\ ~IsKnownEmpty(cc)) =>
           (HasAllEqualities(cc) /\ ColumnEqualitiesLast(cc))
    /\ Emitted =>
           (HasAllEqualities(last.r.child) /\ ColumnEqualitiesLast(last.r.child))

\* C13 witness: a finished CC whose column equalities follow a NotExists, whose
\* subquery has join-back equalities of its own.
C13_Witness ==
    /\ pc = "done"
    /\ ~IsKnownEmpty(cc)
    /\ \E i, j \in 1..Len(cc.wheres) :
           /\ i < j
           /\ IsNotExists(cc.wheres[i])
           /\ MultiColumnVars(cc.wheres[i].subquery) # {}
           /\ IsColumnEquality(cc.wheres[j])

\* The pairs of columns equated by a constraint of `wheres`.
EqualityEdges(c) ==
    {<<w.left, w.right.col>> : w \in {x \in WheresSet(c) : IsColumnEquality(x)}}

RECURSIVE ConnectedTo(_, _)
\* The columns reachable from the set S along equalities, in either direction.
ConnectedTo(S, edges) ==
    LET S1 == S \cup {e[2] : e \in {d \in edges : d[1] \in S}}
                 \cup {e[1] : e \in {d \in edges : d[2] \in S}}
    IN  IF S1 = S THEN S ELSE ConnectedTo(S1, edges)

\* All the columns of each variable are connected by equalities of `wheres`.
ColumnsConnected(c) ==
    \A v \in MultiColumnVars(c) :
        LET cols == c.column_bindings[v] IN
        {cols[i] : i \in 1..Len(cols)} \subseteq ConnectedTo({cols[1]}, EqualityEdges(c))

\* C14 (as stated): in every reachable state of the CC the columns of each
\* variable with two or more columns are connected by Equals constraints.
C14_ColumnsAlwaysConnected == ColumnsConnected(cc)

\* C14 (amended): the columns of each variable are connected by Equals
\* constraints once expand_column_bindings has run on a CC that is not
\* known-empty: in the finished CC, and at every moment in the subquery of
\* each NotExists, where the column the child was seeded with is equated with
\* each column bound inside the child.
C14_ColumnsConnectedAfterExpand ==
    /\ (pc = "done" /\ ~IsKnownEmpty(cc)) => ColumnsConnected(cc)
    /\ \A c \in SubCCs(cc) \ {cc} : ColumnsConnected(c)
    /\ Emitted =>
          \A v \in (UnificationSet(last.not_join) \cap DOMAIN last.pre.column_bindings)
                      \ DOMAIN last.pre.value_bindings :
              LET cols == last.r.child.column_bindings[v] IN
              /\ cols[1] = last.pre.column_bindings[v][1]
              /\ {cols[i] : i \in 1..Len(cols)}
                    \subseteq ConnectedTo({cols[1]}, EqualityEdges(last.r.child))

\* C14 witness: an emitted child in which a variable has its seeded column and
\* two columns of the child's own tables.
C14_Witness ==
    /\ Emitted
    /\ \E v \in DOMAIN last.r.child.column_bindings :
           Len(last.r.child.column_bindings[v]) >= 3

\* The column equalities of `wheres`, in order.
ColumnEqualitySeq(c) == SelectSeq(c.wheres, IsColumnEquality)

ColumnsOf(c, v) == {c.column_bindings[v][i] : i \in 1..Len(c.column_bindings[v])}

\* The equalities expected for the variable v: its first column on the left,
\* each later column on the right, in the order of the list.
EqualitiesOf(c, v) ==
    [i \in 1..(Len(c.column_bindings[v]) - 1) |->
        Equals(c.column_bindings[v][1], QColumn(c.column_bindings[v][i + 1]))]

\* The column equalities of c are, variable by variable, the expected ones in
\* the expected order, and there are no others.
EqualitiesCanonical(c) ==
    /\ \A v \in DOMAIN c.column_bindings :
          SelectSeq(c.wheres,
                    LAMBDA w : IsColumnEquality(w) /\ w.right.col \in ColumnsOf(c, v))
             = EqualitiesOf(c, v)
    /\ \A i \in 1..Len(c.wheres) :
          IsColumnEquality(c.wheres[i]) =>
              \E v \in DOMAIN c.column_bindings : c.wheres[i].right.col \in ColumnsOf(c, v)

\* Columns are listed in the order their tables were allocated.
ColumnsInEncounterOrder(c) ==
    \A v \in DOMAIN c.column_bindings :
        \A i, j \in 1..Len(c.column_bindings[v]) :
            i < j => c.column_bindings[v][i].alias < c.column_bindings[v][j].alias

\* The CCs on which expand_column_bindings has run.
ExpandedCCs ==
    (SubCCs(cc) \ {cc}) \cup (IF pc = "done" /\ ~IsKnownEmpty(cc) THEN {cc} ELSE {})

\* C15: column lists keep the order in which the columns were first met; the
\* column equalities generated for a variable have the first column of its
\* list on the left and the later columns on the right, in list order; in the
\* child of a negation the first column, hence the left side of every
\* join-back equality, is the parent's first column for the variable.
C15_FirstColumnCanonical ==
    /\ \A c \in SubCCs(cc) : ColumnsInEncounterOrder(c)
    /\ \A c \in ExpandedCCs : EqualitiesCanonical(c)
    /\ Emitted =>
          \A v \in (UnificationSet(last.not_join) \cap DOMAIN last.pre.column_bindings)
                      \ DOMAIN last.pre.value_bindings :
              /\ Has(last.r.child.column_bindings, v)
              /\ last.r.child.column_bindings[v][1] = last.pre.column_bindings[v][1]
              /\ \A i \in 1..Len(last.r.child.wheres) :
                    LET w == last.r.child.wheres[i] IN
                    (IsColumnEquality(w) /\ w.right.col \in ColumnsOf(last.r.child, v))
                        => w.left = last.pre.column_bindings[v][1]

\* C15 witness: the parent has two columns for a variable and the emitted
\* child equates the first of them with two columns of its own.
C15_Witness ==
    /\ Emitted
    /\ \E v \in DOMAIN last.r.child.column_bindings :
          /\ Has(last.pre.column_bindings, v)
          /\ Len(last.pre.column_bindings[v]) >= 2
          /\ Len(ColumnEqualitySeq(last.r.child)) >= 2
          /\ Len(last.r.child.column_bindings[v]) >= 3

----------------------------------------------------------------------------
(* `or` inside `not` *)

IsAlternation(w) == w.kind = "Alternation"

AlternationIndexes(c) == {i \in 1..Len(c.wheres) : IsAlternation(c.wheres[i])}

\* The positions of the `or` clauses among the sub-clauses of a negation.
OrIndexes(nj) == {k \in 1..Len(nj.clauses) : nj.clauses[k].kind = "or"}

\* A branch [?x :attr literal] survives when the attribute is in the schema
\* and can hold the literal.
BranchSurvives(p) ==
    /\ Has(SchemaIdents, p.a.name)
    /\ p.v.value.type \in AttributeValueTypes(p.a)

\* The ColumnIntersection of the branch [?x :attr literal] over the table a.
BranchIntersection(a, p) ==
    <<Equals(QualifiedAlias(a, "Attribute"), QEntid(SchemaIdents[p.a.name])),
      Equals(QualifiedAlias(a, "Value"), QTypedValue(p.v.value))>>

\* The table of the k-th sub-clause in a child none of whose sub-clauses
\* before the k-th is a negation.
TableOfClause(child, nj, k) ==
    child.from[Cardinality({j \in 1..k : nj.clauses[j].kind \in {"pattern", "or"}})].alias

\* C16: an `or` with two or more surviving branches inside a `not` puts one
\* ColumnAlternation of the surviving branches' intersections into the child's
\* `wheres`, after the constraints of the earlier sub-clauses and before those
\* of the later ones, the join-back equalities coming last; the parent gets
\* the NotExists wrapping the child and nothing else.
C16_OrInsideNot ==
    (Emitted /\ OrIndexes(last.not_join) # {}) =>
        LET nj    == last.not_join
            child == last.r.child
            k     == CHOOSE x \in OrIndexes(nj) : TRUE
            surv  == SelectSeq(nj.clauses[k].branches, BranchSurvives)
        IN  Len(surv) >= 2 =>
            /\ Cardinality(AlternationIndexes(child)) = 1
            /\ LET i == CHOOSE x \in AlternationIndexes(child) : TRUE
                   a == TableOfClause(child, nj, k)
               IN  /\ child.wheres[i].branches
                         = [j \in 1..Len(surv) |-> BranchIntersection(a, surv[j])]
                   /\ \A j \in 1..(i - 1) :
                         /\ child.wheres[j].kind = "Equals"
                         /\ ~IsColumnEquality(child.wheres[j])
                         /\ child.wheres[j].left.alias < a
                   /\ \A j \in (i + 1)..Len(child.wheres) :
                         /\ child.wheres[j].kind = "Equals"
                         /\ IsColumnEquality(child.wheres[j])
                               \/ child.wheres[j].left.alias > a
                   /\ ColumnEqualitiesLast(child)
                   /\ \E j \in (i + 1)..Len(child.wheres) :
                         child.wheres[j] = Equals(last.pre.column_bindings["?x"][1],
                                                  QColumn(QualifiedAlias(a, "Entity")))
                   /\ Cardinality({j \in 1..Len(child.from) : child.from[j].alias = a}) = 1
            /\ cc.wheres = Append(last.pre.wheres, NotExists(child))
            /\ cc.from = last.pre.from
            /\ cc.column_bindings = last.pre.column_bindings

\* C16 witness: the emitted child has an alternation of two intersections,
\* left of three branches, between the constraints of two patterns.
C16_Witness ==
    /\ Emitted
    /\ \E i \in AlternationIndexes(last.r.child) :
          /\ Len(last.r.child.wheres[i].branches) = 2
          /\ i > 1
          /\ \E j \in (i + 1)..Len(last.r.child.wheres) :
                ~IsColumnEquality(last.r.child.wheres[j])
    /\ \E k \in OrIndexes(last.not_join) : Len(last.not_join.clauses[k].branches) = 3

----------------------------------------------------------------------------
(* Errors and known-empty children *)

\* The call got past the seeding loop.
Seeded == last.called /\ last.r.outcome # "unbound"

\* C17: when applying the sub-clauses to the seeded template, or
\* process_required_types on it, returns an error, apply_not_join returns that
\* error, algebrization is aborted and the parent's `wheres`, `from` and
\* column bindings are as before the call; when the child is known-empty and
\* no error occurred, apply_not_join returns Ok and algebrization goes on.
C17_ErrorsAbortEmptyDoesNot ==
    Seeded =>
        LET applied  == ApplyClauses(last.r.seeded, last.not_join.clauses)
            required == ProcessRequiredTypes(
                            PruneExtractedTypes(ExpandColumnBindings(applied.cc)))
        IN  /\ applied.err # "None" =>
                  /\ result = ResultOf(applied)
                  /\ pc = "error"
                  /\ cc.wheres = last.pre.wheres
                  /\ cc.from = last.pre.from
                  /\ cc.column_bindings = last.pre.column_bindings
            /\ (applied.err = "None" /\ required.err # "None") =>
                  /\ result = ResultOf(required)
                  /\ pc = "error"
                  /\ cc.wheres = last.pre.wheres
            /\ (applied.err = "None" /\ IsKnownEmpty(last.r.child)) =>
                  /\ result.err = "None"
                  /\ pc = "clauses"
                  /\ cc.wheres = last.pre.wheres

\* C17 witness: a nested negation failed on an unbound variable inside the
\* child of a negation whose parent already had constraints.
C17_Witness ==
    /\ Seeded
    /\ ApplyClauses(last.r.seeded, last.not_join.clauses).err = "UnboundVariable"
    /\ result.err = "UnboundVariable"
    /\ last.pre.wheres # <<>>

\* The `or` clauses of a negation none of whose branches survives.
DeadOrIndexes(nj) ==
    {k \in OrIndexes(nj) : SelectSeq(nj.clauses[k].branches, BranchSurvives) = <<>>}

\* C18: when no branch of an `or` survives, the CC the `or` is applied to,
\* unless already known-empty, is marked known-empty with the reason
\* NonMatchingOr; a `not` with such an `or` among its sub-clauses has a
\* known-empty child, returns Ok and leaves its parent as it was.
C18_NonMatchingOrDropsNot ==
    (Seeded /\ DeadOrIndexes(last.not_join) # {}) =>
        LET nj     == last.not_join
            k      == CHOOSE x \in DeadOrIndexes(nj) : TRUE
            before == ApplyClauses(last.r.seeded, SubSeq(nj.clauses, 1, k - 1))
        IN  (before.err = "None" /\ ~IsKnownEmpty(before.cc)) =>
                /\ ApplyOr(before.cc, nj.clauses[k]).empty_because = "NonMatchingOr"
                /\ last.r.child.empty_because = "NonMatchingOr"
                /\ CountNotExists(cc.wheres) = CountNotExists(last.pre.wheres)
                /\ cc = last.pre
                /\ result.err = "None"
                /\ pc = "clauses"

\* C18 witness: a negation whose `or` has no surviving branch was applied to a
\* parent with constraints and left it alone.
C18_Witness ==
    /\ Seeded
    /\ DeadOrIndexes(last.not_join) # {}
    /\ last.r.child.empty_because = "NonMatchingOr"
    /\ last.r.child.from # <<>>
    /\ last.pre.wheres # <<>>
    /\ ~IsKnownEmpty(last.pre)

----------------------------------------------------------------------------
(* The command-line reader: claims *)

\* The reader as the last call of read_input left it.
Reader == [buffer |-> buffer, in_process_cmd |-> in_process_cmd]

\* C19: read_input returns More exactly when the command it obtained is a
\* Query, QueryPrepared, Transact or QueryExplain that is not complete; then
\* the buffer holds what it held before, a newline and the line just read,
\* the command is the in-process command, and the history is as it was.
C19_MoreIffIncompleteStatement ==
    rd.called =>
        /\ rd.ret = "More" <=>
              (rd.cmd.ok /\ rd.cmd.kind \in Statements /\ ~ValidEdn(rd.cmd.args))
        /\ rd.ret = "More" =>
              /\ rd.user.action = "TextInput"
              /\ buffer = (IF rd.pre.buffer = <<>> THEN rd.user.line
                           ELSE rd.pre.buffer \o <<NewLine>> \o rd.user.line)
              /\ in_process_cmd.some
              /\ in_process_cmd.kind = rd.cmd.kind
              /\ in_process_cmd.args = rd.cmd.args
              /\ history = rd.pre_history
              /\ Len(history_file) <= Len(history)

\* C19 witness: on a terminal with an earlier command in its history, a
\* further line of an unfinished QueryExplain was read and More returned.
C19_Witness ==
    /\ rd.called
    /\ rd.ret = "More"
    /\ rd.pre.in_process_cmd.some
    /\ rd.cmd.kind = "QueryExplain"
    /\ interface
    /\ history # <<>>

\* C20: on an Interrupt, read_input with a command in process clears the
\* in-process command and the buffer and returns Empty, the next prompt being
\* the default one and the history untouched; with no command in process it
\* returns Eof and leaves the reader as it was.
C20_InterruptClearsOrEnds ==
    (rd.called /\ rd.user.action = "Interrupt") =>
        IF rd.pre.in_process_cmd.some
        THEN /\ rd.ret = "Empty"
             /\ buffer = <<>>
             /\ ~in_process_cmd.some
             /\ Prompt(Reader) = "mentat=> "
             /\ history = rd.pre_history
        ELSE /\ rd.ret = "Eof"
             /\ Reader = rd.pre
             /\ history = rd.pre_history

\* C20 witness: an Interrupt arrived while the second line of a command was
\* awaited at the continuation prompt.
C20_Witness ==
    /\ rd.called
    /\ rd.user.action = "Interrupt"
    /\ rd.pre.in_process_cmd.some
    /\ rd.prompt = "mentat.> "
    /\ \E i \in 1..Len(rd.pre.buffer) : rd.pre.buffer[i] = NewLine
    /\ rd.ret = "Empty"

\* A line of text was read while a command was in process.
ContinuationRead ==
    rd.called /\ rd.user.action = "TextInput" /\ rd.pre.in_process_cmd.some

\* C21: a line read while a command is in process is appended, after a
\* newline, to the arguments of that command, which keeps its kind, and
\* command() is not called.
C21_ContinuationNotParsedAgain ==
    ContinuationRead =>
        /\ ~rd.parsed
        /\ rd.cmd.ok
        /\ rd.cmd.kind = rd.pre.in_process_cmd.kind
        /\ rd.cmd.args = rd.pre.in_process_cmd.args \o <<NewLine>> \o rd.user.line

----------------------------------------------------------------------------
(* The constant projector: claims *)

\* C22: project returns what project_without_rows returns: Ok with the
\* projector's find-spec and the results of exactly one call of
\* results_factory, whatever schema, connection and rows it is given; with a
\* deterministic factory two successive calls return equal outputs.
C22_ProjectIgnoresItsInputs ==
    out.called =>
        /\ out.ok
        /\ out.output = ProjectWithoutRows(projector, out.calls_before).output
        /\ out.output.spec = projector.spec
        /\ out.output.results = CallFactory(projector.results_factory, out.calls_before)
        /\ factory_calls = out.calls_before + 1
        /\ (prev.called /\ projector.results_factory.deterministic) =>
              out.output = prev.output

\* C22 witness: two calls of project with different schemas, connections and
\* rows on a projector with a deterministic factory.
C22_Witness ==
    /\ out.called
    /\ prev.called
    /\ out.op = "project"
    /\ prev.op = "project"
    /\ out.rows # prev.rows
    /\ out.schema # prev.schema
    /\ out.sqlite # prev.sqlite
    /\ projector.results_factory.deterministic
    /\ projector.results_factory.results.n # out.rows

----------------------------------------------------------------------------
(* Order of the steps of apply_not_join *)

\* The steps of a call that emits its NotExists.
AllSteps ==
    <<"seed", "apply_clauses">> \o PostSteps \o <<"wheres_is_empty", "add_intersection">>

IsPrefix(s, t) == Len(s) <= Len(t) /\ s = SubSeq(t, 1, Len(s))

LastOf(s) == s[Len(s)]

----------------------------------------------------------------------------
(* Variables outside the unification set *)

\* The last call was of a not-join that got past the seeding loop.
SeededExplicit == Seeded /\ last.not_join.unify = "Explicit"

\* The columns the parent had for v when the call was made.
ParentColumns(v) ==
    IF Has(last.pre.column_bindings, v)
    THEN {last.pre.column_bindings[v][i] : i \in 1..Len(last.pre.column_bindings[v])}
    ELSE {}

\* C24: in the child of a not-join, a variable outside U has, after the
\* seeding loop, no column binding, no value binding and no known type, and is
\* no input variable, whatever the parent has for a variable of that name;
\* whatever a sub-clause then binds it to is a column of the child's own
\* tables, and no column equality of the child involves a column the parent
\* has for that name.
C24_NothingOutsideU ==
    SeededExplicit =>
        \A v \in Variables \ last.not_join.vars :
            /\ ~Has(last.r.seeded.column_bindings, v)
            /\ ~Has(last.r.seeded.value_bindings, v)
            /\ ~Has(last.r.seeded.known_types, v)
            /\ v \notin last.r.seeded.input_variables
            /\ ~Has(last.r.child.value_bindings, v)
            /\ Has(last.r.child.column_bindings, v) =>
                  (ColumnsOf(last.r.child, v) \cap ParentColumns(v) = {})
            /\ \A i \in 1..Len(last.r.child.wheres) :
                  LET w == last.r.child.wheres[i] IN
                  IsColumnEquality(w) =>
                      (w.left \notin ParentColumns(v) /\ w.right.col \notin ParentColumns(v))

\* C24 witness: an emitted not-join whose sub-clause binds a variable outside
\* U that the parent binds by column under the same name.
C24_Witness ==
    /\ SeededExplicit
    /\ Emitted
    /\ \E v \in Variables \ last.not_join.vars :
          /\ Has(last.pre.column_bindings, v)
          /\ Has(last.r.child.column_bindings, v)

----------------------------------------------------------------------------
(* Variables bound both by value and by column *)

\* The variables of U the parent binds both by value and by column.
DoublyBound(c, U) == U \cap DOMAIN c.value_bindings \cap DOMAIN c.column_bindings

\* C25: a variable of U that the parent binds both by value and by column
\* leaves the seeding loop with the parent's value as its value binding and
\* with no column binding in the template.
C25_ValueBindingWins ==
    Seeded =>
        \A v \in DoublyBound(last.pre, UnificationSet(last.not_join)) :
            /\ Has(last.r.seeded.value_bindings, v)
            /\ last.r.seeded.value_bindings[v] = last.pre.value_bindings[v]
            /\ ~Has(last.r.seeded.column_bindings, v)

\* C25 witness: a negation over ?x and ?y was emitted from a parent in which
\* ?y has a column, from a pattern, and a value, from a later ground.
C25_Witness ==
    /\ Emitted
    /\ "?y" \in DoublyBound(last.pre, UnificationSet(last.not_join))
    /\ ~IsKnownEmpty(last.pre)
    /\ Has(last.r.child.column_bindings, "?x")

----------------------------------------------------------------------------
(* Aliases after a dropped negation *)

\* The aliases of the tables that joined `from` after position n.
AliasesAfter(c, n) == [i \in 1..(Len(c.from) - n) |-> c.from[n + i].alias]

----------------------------------------------------------------------------
(* The reader between calls *)

\* C27: between calls of read_input the buffer is non-empty exactly when a
\* command is in process, and a call that returned Eof left the buffer and
\* the in-process command as they were.
C27_BufferIffInProcess ==
    /\ (buffer # <<>>) <=> in_process_cmd.some
    /\ (rd.called /\ rd.ret = "Eof") =>
          /\ buffer = rd.pre.buffer
          /\ in_process_cmd = rd.pre.in_process_cmd

\* C27 witness: at the last read of a session on a terminal, end-of-input
\* arrived while a command was in process with its text in the buffer.
C27_Witness ==
    /\ rd.called
    /\ rd.ret = "Eof"
    /\ rd.user.action = "Quit"
    /\ in_process_cmd.some
    /\ buffer # <<>>
    /\ interface
    /\ reads >= MaxReads

\* The text of the command the last call ended: what the buffer held, a
\* newline, and the line read.
WholeText == PushLine(rd.pre.buffer, rd.user.line)

\* C28: a call that returns a MetaCommand or a parse error hands the whole
\* buffered text to add_history, once, and leaves the buffer empty and no
\* command in process, so that the next prompt is the default one and the
\* next line is parsed as a new command; a call that returns More, Empty or
\* Eof hands nothing to add_history.
C28_HistoryGetsWholeCommandOnce ==
    rd.called =>
        /\ rd.added <=> rd.ret \in {"MetaCommand", "Err"}
        /\ rd.added =>
              /\ rd.entry = WholeText
              /\ buffer = <<>>
              /\ ~in_process_cmd.some
              /\ Prompt(Reader) = "mentat=> "
              /\ history = (IF interface THEN Append(rd.pre_history, WholeText)
                            ELSE rd.pre_history)
              /\ history_file = history
        /\ ~rd.added => history = rd.pre_history
        /\ (rd.pre = NewReader /\ rd.ret \notin {"Eof", "Empty"}) =>
              /\ rd.prompt = "mentat=> "
              /\ rd.parsed
              /\ rd.cmd = ParseCommand(rd.user.line)

\* C28 witness: on a terminal, the closing line of a command of two lines
\* was read and the command returned, an earlier command being in the
\* history already.
C28_Witness ==
    /\ rd.called
    /\ rd.ret = "MetaCommand"
    /\ rd.pre.in_process_cmd.some
    /\ rd.user.line # <<>>
    /\ rd.entry = rd.pre.buffer \o <<NewLine>> \o rd.user.line
    /\ interface
    /\ Len(history) >= 2

====
